---- MODULE Spec2Model ----
(***************************************************************************)
(* repo_scorecard: the weighted checks of a local repository, their        *)
(* aggregation into a score, the report and the CI gate                    *)
(* (src/repo_scorecard.py).                                                 *)
(*                                                                         *)
(* A repository is a record                                                *)
(*   root      the parts of the resolved root path (Path.parts),           *)
(*   files     the regular files below the root, each with its path        *)
(*             relative to the root and what its text contains,            *)
(*   emptyDirs directories that hold no file,                              *)
(*   fault     at most one permission fault: a directory whose mode lacks  *)
(*             the read bit, the search bit or both, or a file that cannot *)
(*             be read.                                                    *)
(* The order in which the operating system lists directory entries is not  *)
(* fixed by the code: listing is the order of the last traversal, and a    *)
(* file added to the tree leaves the order of the other entries as it was. *)
(***************************************************************************)
EXTENDS Integers, Sequences, FiniteSets, TLC

VARIABLES repo, listing, phase, walked, outcome,
          pathKind, out, min_score, pc, checks, score, report,
          stdout, stderr, ret

vars == <<repo, listing, phase, walked, outcome,
          pathKind, out, min_score, pc, checks, score, report,
          stdout, stderr, ret>>

repoVars == <<repo, listing, phase, walked, outcome>>
mainVars == <<pathKind, out, min_score, pc, checks, score, report,
              stdout, stderr, ret>>

(***************************************************************************)
(* Bounds of the model.                                                    *)
(***************************************************************************)
MaxFiles == 2

(***************************************************************************)
(* Constants of the program.                                               *)
(***************************************************************************)
IGNORED_DIRS == {".git", "node_modules", "bin", "obj", "dist", "build", ".venv"}

(***************************************************************************)
(* Sequences helpers.                                                      *)
(***************************************************************************)
Range(s) == {s[i] : i \in 1..Len(s)}

IsPrefix(d, p) == Len(d) <= Len(p) /\ SubSeq(p, 1, Len(d)) = d

IsProperPrefix(d, p) == Len(d) < Len(p) /\ SubSeq(p, 1, Len(d)) = d

Parent(p) == SubSeq(p, 1, Len(p) - 1)

RECURSIVE Perms(_)
Perms(S) == IF S = {} THEN {<<>>} ELSE UNION {{<<x>> \o s : s \in Perms(S \ {x})} : x \in S}

(***************************************************************************)
(* The files a modelled repository may hold.  text stands for the first    *)
(* bytes of the file; "{version: 1.0.0}" stands for a JSON object with the *)
(* member "version": "1.0.0".                                              *)
(***************************************************************************)
F(path, text) == [path |-> path, text |-> text]

Universe ==
    { F(<<"README.md">>, ""),
      F(<<"LICENSE">>, ""),
      F(<<".github", "CODEOWNERS">>, ""),
      F(<<".github", "workflows", "ci.yml">>, ""),
      F(<<"tests", "test_x.py">>, ""),
      F(<<"src", "tests", "test_a.py">>, ""),
      F(<<"spec">>, ""),
      F(<<"contest.py">>, ""),
      F(<<"ruff.toml">>, ""),
      F(<<"pyproject.toml">>, "[tool.ruff]"),
      F(<<"Dockerfile">>, ""),
      F(<<"SECURITY.md">>, ""),
      F(<<"config", "app.yml">>, "opentelemetry-sdk"),
      F(<<"CHANGELOG.md">>, ""),
      F(<<"package.json">>, "{version: 1.0.0}"),
      F(<<"build", "ruff.toml">>, "") }

Roots == { <<"/", "home", "repo">>, <<"/", "home", "build", "repo">> }

EmptyDirChoices == { {}, { <<".github", "workflows">> } }

(***************************************************************************)
(* Python's str and Path operations, tabulated on the names of Universe.   *)
(***************************************************************************)
Name(p) == p[Len(p)]

Upper(s) ==
    CASE s = "README.md" -> "README.MD"
      [] s = "LICENSE" -> "LICENSE"
      [] s = "CODEOWNERS" -> "CODEOWNERS"
      [] s = "ci.yml" -> "CI.YML"
      [] s = "test_x.py" -> "TEST_X.PY"
      [] s = "test_a.py" -> "TEST_A.PY"
      [] s = "spec" -> "SPEC"
      [] s = "contest.py" -> "CONTEST.PY"
      [] s = "ruff.toml" -> "RUFF.TOML"
      [] s = "pyproject.toml" -> "PYPROJECT.TOML"
      [] s = "Dockerfile" -> "DOCKERFILE"
      [] s = "SECURITY.md" -> "SECURITY.MD"
      [] s = "app.yml" -> "APP.YML"
      [] s = "CHANGELOG.md" -> "CHANGELOG.MD"
      [] s = "package.json" -> "PACKAGE.JSON"
      [] OTHER -> s

Lower(s) ==
    CASE s = "README.md" -> "readme.md"
      [] s = "README" -> "readme"
      [] s = "LICENSE" -> "license"
      [] s = "CODEOWNERS" -> "codeowners"
      [] s = "Dockerfile" -> "dockerfile"
      [] s = "SECURITY.md" -> "security.md"
      [] s = "SECURITY" -> "security"
      [] s = "CHANGELOG.md" -> "changelog.md"
      [] s = "CHANGELOG" -> "changelog"
      [] OTHER -> s

\* PurePath.suffix of a final component
Suffix(s) ==
    CASE s \in {"README.md", "SECURITY.md", "CHANGELOG.md"} -> ".md"
      [] s \in {"ci.yml", "app.yml"} -> ".yml"
      [] s \in {"test_x.py", "test_a.py", "contest.py"} -> ".py"
      [] s \in {"ruff.toml", "pyproject.toml"} -> ".toml"
      [] s = "package.json" -> ".json"
      [] OTHER -> ""

\* PurePath.stem of a final component
Stem(s) ==
    CASE s = "README.md" -> "README"
      [] s = "SECURITY.md" -> "SECURITY"
      [] s = "CHANGELOG.md" -> "CHANGELOG"
      [] s = "ci.yml" -> "ci"
      [] s = "app.yml" -> "app"
      [] s = "test_x.py" -> "test_x"
      [] s = "test_a.py" -> "test_a"
      [] s = "contest.py" -> "contest"
      [] s = "ruff.toml" -> "ruff"
      [] s = "pyproject.toml" -> "pyproject"
      [] s = "package.json" -> "package"
      [] OTHER -> s

StrLen(s) ==
    CASE s = "README.MD" -> 9
      [] s = "LICENSE" -> 7
      [] s = "CODEOWNERS" -> 10
      [] s = "CI.YML" -> 6
      [] s = "TEST_X.PY" -> 9
      [] s = "TEST_A.PY" -> 9
      [] s = "SPEC" -> 4
      [] s = "CONTEST.PY" -> 10
      [] s = "RUFF.TOML" -> 9
      [] s = "PYPROJECT.TOML" -> 14
      [] s = "DOCKERFILE" -> 10
      [] s = "SECURITY.MD" -> 11
      [] s = "APP.YML" -> 7
      [] s = "CHANGELOG.MD" -> 12
      [] s = "PACKAGE.JSON" -> 12
      [] OTHER -> 0

\* s.startswith(prefix)
StartsWith(s, prefix) ==
    <<s, prefix>> \in { <<"README.MD", "README.">>, <<"LICENSE", "LICENSE">> }

\* sub in s
Contains(s, sub) ==
    <<s, sub>> \in { <<"test_x", "test">>, <<"test_a", "test">>, <<"contest", "test">>, <<"spec", "spec">>,
                     <<"[tool.ruff]", "ruff">>,
                     <<"opentelemetry-sdk", "opentelemetry">> }

RECURSIVE PathStr(_)
\* str(rel): the parts joined by "/"
PathStr(p) ==
    IF Len(p) = 0 THEN "."
    ELSE IF Len(p) = 1 THEN p[1]
    ELSE PathStr(Parent(p)) \o "/" \o Name(p)

(***************************************************************************)
(* The file system below the root.                                         *)
(***************************************************************************)
NoFault == [kind |-> "none", at |-> <<>>]

FilePaths(r) == {f.path : f \in r.files}

Dirs(r) ==
    UNION ( {{SubSeq(f.path, 1, i) : i \in 1..(Len(f.path) - 1)} : f \in r.files}
            \cup {{SubSeq(d, 1, i) : i \in 1..Len(d)} : d \in r.emptyDirs} )

FileAt(r, p) == CHOOSE f \in r.files : f.path = p

\* the directory d may be searched: its entries can be stat()ed
Searchable(r, d) == ~(r.fault.kind \in {"r--", "---"} /\ r.fault.at = d)

\* the directory d may be read: its entries can be listed
Listable(r, d) == ~(r.fault.kind \in {"--x", "---"} /\ r.fault.at = d)

\* os.stat(root / p) fails with EACCES
StatFails(r, p) == \E i \in 0..(Len(p) - 1) : ~Searchable(r, SubSeq(p, 1, i))

\* Path.is_file / Path.is_dir where stat does not fail
IsFile(r, p) == p \in FilePaths(r)

IsDir(r, p) == p = <<>> \/ p \in Dirs(r)

\* open(root / p) fails
ReadFails(r, p) == r.fault.kind = "unreadable" /\ r.fault.at = p

\* root.rglob("*"): every entry whose ancestors can all be listed and, but
\* for its parent, searched; an unreadable directory is passed over in silence
Yielded(r) ==
    {e \in FilePaths(r) \cup Dirs(r) :
        \A i \in 0..(Len(e) - 1) :
            /\ Listable(r, SubSeq(e, 1, i))
            /\ (i < Len(e) - 1 => Searchable(r, SubSeq(e, 1, i)))}

\* scandir of the parent of e succeeds: the parent can be read and every
\* directory above it searched
Visible(r, e) ==
    /\ Listable(r, Parent(e))
    /\ \A i \in 0..(Len(e) - 2) : Searchable(r, SubSeq(e, 1, i))

\* the entries on which a loop over a listing can act: a directory whose
\* stat succeeds is passed by "if not p.is_file(): continue"
Entries(r) ==
    {e \in FilePaths(r) \cup Dirs(r) : Visible(r, e) /\ (StatFails(r, e) \/ IsFile(r, e))}

RECURSIVE Batches(_, _)
\* the entries of each directory of ds together, in any order
Batches(E, ds) ==
    IF ds = <<>> THEN {<<>>}
    ELSE {h \o t : h \in Perms({e \in E : Parent(e) = ds[1]}), t \in Batches(E, Tail(ds))}

\* the order of a listing: the entries of one directory come together, and
\* those of a directory before those of the directories below it
RglobOrder(ds) == \A i, j \in 1..Len(ds) : IsProperPrefix(ds[i], ds[j]) => i < j

\* the orders in which the operating system may list the tree
Orders(r) ==
    LET E == Entries(r)
    IN  UNION {Batches(E, ds) : ds \in {p \in Perms({Parent(e) : e \in E}) : RglobOrder(p)}}

\* root.rglob("*") in the order of the listing
Rglob(r, order) == SelectSeq(order, LAMBDA e : e \in Yielded(r))

\* d.iterdir() in the order of the listing
IterDir(d, order) == SelectSeq(order, LAMBDA e : Len(e) > 0 /\ Parent(e) = d)

Ignored(r, e) == \E part \in IGNORED_DIRS : part \in Range(r.root \o e)

RECURSIVE walk_loop(_, _, _, _)
walk_loop(r, ps, i, paths) ==
    IF i > Len(ps) THEN paths
    ELSE IF StatFails(r, ps[i]) THEN paths
    ELSE IF ~IsFile(r, ps[i]) THEN walk_loop(r, ps, i + 1, paths)
    ELSE IF Ignored(r, ps[i]) THEN walk_loop(r, ps, i + 1, paths)
    ELSE walk_loop(r, ps, i + 1, Append(paths, ps[i]))

walk_repo(r, order) == walk_loop(r, Rglob(r, order), 1, <<>>)

(***************************************************************************)
(* The ten checks.  A check returns a CheckResult or raises the            *)
(* PermissionError that a stat or a listing raised in it.                  *)
(***************************************************************************)
CheckResult(id, name, weight, passed, evidence) ==
    [id |-> id, name |-> name, weight |-> weight, passed |-> passed, evidence |-> evidence]

Return(v) == [exc |-> "none", val |-> <<v>>]

Raise == [exc |-> "PermissionError", val |-> <<>>]

RECURSIVE readme_loop(_, _, _)
readme_loop(r, es, i) ==
    IF i > Len(es) THEN Return(CheckResult("readme", "README existe", 10, FALSE, ""))
    ELSE IF StatFails(r, es[i]) THEN Raise
    ELSE IF ~IsFile(r, es[i]) THEN readme_loop(r, es, i + 1)
    ELSE LET name == Upper(Name(es[i])) IN
         IF name = "README.MD" \/ (StartsWith(name, "README.") /\ StrLen(name) > 7)
         THEN Return(CheckResult("readme", "README existe", 10, TRUE, Name(es[i])))
         ELSE readme_loop(r, es, i + 1)

check_readme(r, order) ==
    IF ~Listable(r, <<>>) THEN Raise ELSE readme_loop(r, IterDir(<<>>, order), 1)

RECURSIVE license_loop(_, _, _)
license_loop(r, es, i) ==
    IF i > Len(es) THEN Return(CheckResult("license", "LICENSE existe", 5, FALSE, ""))
    ELSE IF StatFails(r, es[i]) THEN Raise
    ELSE IF IsFile(r, es[i]) /\ StartsWith(Upper(Name(es[i])), "LICENSE")
         THEN Return(CheckResult("license", "LICENSE existe", 5, TRUE, Name(es[i])))
         ELSE license_loop(r, es, i + 1)

check_license(r, order) ==
    IF ~Listable(r, <<>>) THEN Raise ELSE license_loop(r, IterDir(<<>>, order), 1)

RECURSIVE codeowners_loop(_, _, _)
codeowners_loop(r, candidates, i) ==
    IF i > Len(candidates)
    THEN Return(CheckResult("codeowners", "CODEOWNERS existe", 10, FALSE, ""))
    ELSE IF StatFails(r, candidates[i]) THEN Raise
    ELSE IF IsFile(r, candidates[i])
         THEN Return(CheckResult("codeowners", "CODEOWNERS existe", 10, TRUE,
                                 PathStr(candidates[i])))
         ELSE codeowners_loop(r, candidates, i + 1)

check_codeowners(r, order) ==
    codeowners_loop(r, << <<".github", "CODEOWNERS">>, <<"CODEOWNERS">> >>, 1)

ci_gitlab(r) ==
    LET gl == <<".gitlab-ci.yml">> IN
    IF StatFails(r, gl) THEN Raise
    ELSE IF IsFile(r, gl) THEN Return(CheckResult("ci", "CI configurado", 15, TRUE, Name(gl)))
    ELSE Return(CheckResult("ci", "CI configurado", 15, FALSE, ""))

RECURSIVE ci_loop(_, _, _)
ci_loop(r, fs, i) ==
    IF i > Len(fs) THEN ci_gitlab(r)
    ELSE IF Lower(Suffix(Name(fs[i]))) \in {".yml", ".yaml"}
         THEN Return(CheckResult("ci", "CI configurado", 15, TRUE, PathStr(fs[i])))
         ELSE ci_loop(r, fs, i + 1)

check_ci(r, order) ==
    LET workflows == <<".github", "workflows">> IN
    IF StatFails(r, workflows) THEN Raise
    ELSE IF IsDir(r, workflows)
         THEN IF ~Listable(r, workflows) THEN Raise
              ELSE ci_loop(r, IterDir(workflows, order), 1)
         ELSE ci_gitlab(r)

TestDirNames == {"test", "tests", "spec", "specs", "__tests__"}

RECURSIVE tests_second_loop(_, _, _)
tests_second_loop(r, paths, i) ==
    IF i > Len(paths) THEN Return(CheckResult("tests", "Tests presentes", 15, FALSE, ""))
    ELSE IF "__tests__" \in Range(r.root \o paths[i])
         THEN Return(CheckResult("tests", "Tests presentes", 15, TRUE, PathStr(paths[i])))
         ELSE tests_second_loop(r, paths, i + 1)

RECURSIVE tests_first_loop(_, _, _)
tests_first_loop(r, paths, i) ==
    IF i > Len(paths) THEN tests_second_loop(r, paths, 1)
    ELSE LET rel == paths[i]
             name == Lower(Stem(Name(rel)))
         IN IF "__tests__" \in Range(rel)
            THEN Return(CheckResult("tests", "Tests presentes", 15, TRUE, PathStr(rel)))
            ELSE IF /\ Contains(name, "test") \/ Contains(name, "spec")
                    /\ \E x \in TestDirNames : x \in Range(rel)
                 THEN Return(CheckResult("tests", "Tests presentes", 15, TRUE, PathStr(rel)))
                 ELSE tests_first_loop(r, paths, i + 1)

check_tests(r, order) ==
    LET paths == walk_repo(r, order) IN
    IF StatFails(r, <<"tests">>) THEN Raise
    ELSE IF IsDir(r, <<"tests">>)
         THEN Return(CheckResult("tests", "Tests presentes", 15, TRUE, "tests/ o test/"))
    ELSE IF StatFails(r, <<"test">>) THEN Raise
    ELSE IF IsDir(r, <<"test">>)
         THEN Return(CheckResult("tests", "Tests presentes", 15, TRUE, "tests/ o test/"))
    ELSE tests_first_loop(r, paths, 1)

RECURSIVE linter_loop(_, _, _)
linter_loop(r, paths, i) ==
    IF i > Len(paths) THEN Return(CheckResult("linter", "Linter config", 10, FALSE, ""))
    ELSE LET p == paths[i]
             rel == PathStr(p)
             name == Lower(Name(p))
             content == FileAt(r, p).text
         IN IF \/ name = ".editorconfig"
               \/ StartsWith(name, ".eslintrc")
               \/ name = "ruff.toml"
               \/ name = "stylecop.json"
            THEN Return(CheckResult("linter", "Linter config", 10, TRUE, rel))
            ELSE IF /\ name = "pyproject.toml"
                    /\ ~ReadFails(r, p)
                    /\ \/ Contains(content, "ruff")
                       \/ Contains(content, "black")
                       \/ Contains(content, "isort")
                 THEN Return(CheckResult("linter", "Linter config", 10, TRUE, rel))
                 ELSE linter_loop(r, paths, i + 1)

check_linter(r, order) == linter_loop(r, walk_repo(r, order), 1)

RECURSIVE docker_loop(_, _, _)
docker_loop(r, names, i) ==
    IF i > Len(names) THEN Return(CheckResult("docker", "Docker presente", 10, FALSE, ""))
    ELSE IF StatFails(r, <<names[i]>>) THEN Raise
    ELSE IF IsFile(r, <<names[i]>>)
         THEN Return(CheckResult("docker", "Docker presente", 10, TRUE, names[i]))
         ELSE docker_loop(r, names, i + 1)

check_docker(r, order) ==
    docker_loop(r, <<"Dockerfile", "docker-compose.yml", "docker-compose.yaml">>, 1)

\* a faulty check: SECURITY.md makes it pass but no evidence is recorded
check_security_no_evidence(r, order) ==
    IF StatFails(r, <<"SECURITY.md">>) THEN Raise
    ELSE IF IsFile(r, <<"SECURITY.md">>)
         THEN Return(CheckResult("security", "Security docs/config", 10, TRUE, ""))
    ELSE IF StatFails(r, <<".github", "dependabot.yml">>) THEN Raise
    ELSE IF IsFile(r, <<".github", "dependabot.yml">>)
         THEN Return(CheckResult("security", "Security docs/config", 10, TRUE,
                                 ".github/dependabot.yml"))
    ELSE Return(CheckResult("security", "Security docs/config", 10, FALSE, ""))

check_security(r, order) ==
    IF StatFails(r, <<"SECURITY.md">>) THEN Raise
    ELSE IF IsFile(r, <<"SECURITY.md">>)
         THEN Return(CheckResult("security", "Security docs/config", 10, TRUE, "SECURITY.md"))
    ELSE IF StatFails(r, <<".github", "dependabot.yml">>) THEN Raise
    ELSE IF IsFile(r, <<".github", "dependabot.yml">>)
         THEN Return(CheckResult("security", "Security docs/config", 10, TRUE,
                                 ".github/dependabot.yml"))
    ELSE Return(CheckResult("security", "Security docs/config", 10, FALSE, ""))

ObservabilitySuffixes ==
    {".json", ".toml", ".yml", ".yaml", ".txt", ".xml", ".gradle", ".mod"}

RECURSIVE observability_loop(_, _, _)
observability_loop(r, paths, i) ==
    IF i > Len(paths)
    THEN Return(CheckResult("observability", "OpenTelemetry en deps/config", 5, FALSE, ""))
    ELSE LET rel == paths[i]
             content == Lower(FileAt(r, rel).text)
             candidate == \/ Lower(Suffix(Name(rel))) \in ObservabilitySuffixes
                          \/ "config" \in Range(rel)
                          \/ "conf" \in Range(rel)
                          \/ "workflows" \in Range(rel)
         IN IF candidate /\ ~ReadFails(r, rel) /\ Contains(content, "opentelemetry")
            THEN Return(CheckResult("observability", "OpenTelemetry en deps/config", 5, TRUE,
                                    PathStr(rel)))
            ELSE observability_loop(r, paths, i + 1)

check_observability(r, order) == observability_loop(r, walk_repo(r, order), 1)

\* version_pattern.search(text)
VersionPattern(text) == text = "{version: 1.0.0}"

\* version_csproj.search(text)
VersionCsproj(text) == text = "<Version>1.0.0</Version>"

RECURSIVE release_csproj_loop(_, _, _)
release_csproj_loop(r, paths, i) ==
    IF i > Len(paths) THEN Return(CheckResult("release", "Release hygiene", 10, FALSE, ""))
    ELSE IF /\ Lower(Suffix(Name(paths[i]))) = ".csproj"
            /\ IsFile(r, paths[i])
            /\ ~ReadFails(r, paths[i])
            /\ VersionCsproj(FileAt(r, paths[i]).text)
         THEN Return(CheckResult("release", "Release hygiene", 10, TRUE, PathStr(paths[i])))
         ELSE release_csproj_loop(r, paths, i + 1)

RECURSIVE release_version_loop(_, _, _, _)
release_version_loop(r, order, names, i) ==
    IF i > Len(names) THEN release_csproj_loop(r, walk_repo(r, order), 1)
    ELSE IF StatFails(r, <<names[i]>>) THEN Raise
    ELSE IF /\ IsFile(r, <<names[i]>>)
            /\ ~ReadFails(r, <<names[i]>>)
            /\ VersionPattern(FileAt(r, <<names[i]>>).text)
         THEN Return(CheckResult("release", "Release hygiene", 10, TRUE,
                                 names[i] \o " (version)"))
         ELSE release_version_loop(r, order, names, i + 1)

check_release_hygiene(r, order) ==
    IF StatFails(r, <<"CHANGELOG.md">>) THEN Raise
    ELSE IF IsFile(r, <<"CHANGELOG.md">>)
         THEN Return(CheckResult("release", "Release hygiene", 10, TRUE, "CHANGELOG.md"))
    ELSE release_version_loop(r, order, <<"package.json", "pyproject.toml">>, 1)

(***************************************************************************)
(* run_all_checks: the ten checks in registry order.  An exception raised  *)
(* by a check ends the list comprehension and no list is returned.         *)
(***************************************************************************)
Runners(r, order) ==
    << check_readme(r, order),
       check_license(r, order),
       check_codeowners(r, order),
       check_ci(r, order),
       check_tests(r, order),
       check_linter(r, order),
       check_docker(r, order),
       check_security(r, order),
       check_observability(r, order),
       check_release_hygiene(r, order) >>

run_all_checks(r, order) ==
    LET outs == Runners(r, order) IN
    IF \E i \in 1..Len(outs) : outs[i].exc # "none"
    THEN [exc |-> "PermissionError", val |-> <<>>]
    ELSE [exc |-> "none", val |-> [i \in 1..Len(outs) |-> outs[i].val[1]]]

RECURSIVE SumWeights(_, _)
SumWeights(cs, i) ==
    IF i > Len(cs) THEN 0
    ELSE (IF cs[i].passed THEN cs[i].weight ELSE 0) + SumWeights(cs, i + 1)

\* a faulty aggregation: the first result is left out of the sum
compute_score_skips_first(cs) == SumWeights(cs, 2)

compute_score(cs) == SumWeights(cs, 1)

Count(cs, want) == Cardinality({i \in 1..Len(cs) : cs[i].passed = want})

\* the timestamp is the clock's; the model keeps one value of it
build_report(r, cs, sc) ==
    [repoPath |-> "/" \o PathStr(Tail(r.root)), score |-> sc,
     passed |-> Count(cs, TRUE), failed |-> Count(cs, FALSE),
     checks |-> cs, timestamp |-> "now"]

(***************************************************************************)
(* The repositories of the model: at most MaxFiles files of Universe, at   *)
(* most one fault.  The root itself can be listed (main has checked it),   *)
(* so the only fault of the root is a missing search bit.                  *)
(***************************************************************************)
RECURSIVE SubsetsUpTo(_, _)
SubsetsUpTo(S, n) ==
    IF n = 0 THEN {{}}
    ELSE LET smaller == SubsetsUpTo(S, n - 1)
         IN  smaller \cup {T \cup {x} : T \in smaller, x \in S}

FileSets == SubsetsUpTo(Universe, MaxFiles)

EmptyDirsFor(files) ==
    {E \in EmptyDirChoices : \A d \in E : \A f \in files : ~IsPrefix(d, f.path)}

FaultsFor(files, emptyDirs) ==
    LET r == [root |-> <<"/">>, files |-> files, emptyDirs |-> emptyDirs, fault |-> NoFault]
    IN  {NoFault}
        \cup {[kind |-> k, at |-> d] : k \in {"r--", "--x", "---"}, d \in Dirs(r)}
        \cup {[kind |-> "r--", at |-> <<>>]}
        \cup {[kind |-> "unreadable", at |-> p] : p \in FilePaths(r)}

Repos ==
    UNION { UNION { { [root |-> root, files |-> files, emptyDirs |-> E, fault |-> fault] :
                        root \in Roots, fault \in FaultsFor(files, E) } :
                    E \in EmptyDirsFor(files) } :
            files \in FileSets }

EmptyRepo == [root |-> <<"/", "home", "repo">>, files |-> {}, emptyDirs |-> {}, fault |-> NoFault]

\* the ids, names and weights of the registry: what the checks return where
\* nothing is found
Registry == run_all_checks(EmptyRepo, <<>>).val

NoOutcome == [exc |-> "none", val |-> <<>>]

(***************************************************************************)
(* Evaluation of a repository: one traversal and the ten checks, and the   *)
(* same again after a file has been added to the tree.                     *)
(***************************************************************************)
Evaluate ==
    /\ phase = "fresh"
    /\ \E order \in Orders(repo) :
          /\ listing' = order
          /\ walked' = walk_repo(repo, order)
          /\ outcome' = run_all_checks(repo, order)
    /\ phase' = "evaluated"
    /\ UNCHANGED <<repo, mainVars>>

AddFile ==
    /\ phase = "evaluated"
    /\ \E f \in Universe \ repo.files :
          LET grown == [repo EXCEPT !.files = @ \cup {f},
                                    !.emptyDirs = {d \in @ : ~IsPrefix(d, f.path)}]
          IN  /\ repo' = grown
              /\ \E order \in Orders(grown) :
                    /\ SelectSeq(order, LAMBDA e : e \in Range(listing)) = listing
                    /\ listing' = order
                    /\ walked' = walk_repo(grown, order)
                    /\ outcome' = run_all_checks(grown, order)
    /\ phase' = "grown"
    /\ UNCHANGED mainVars

MainIdle ==
    /\ pathKind = "ok" /\ out = "json" /\ min_score = <<>> /\ pc = "idle"
    /\ checks = <<>> /\ score = <<>> /\ report = <<>>
    /\ stdout = <<>> /\ stderr = <<>> /\ ret = <<>>

InitCheck ==
    /\ repo \in Repos
    /\ phase = "fresh"
    /\ listing = <<>>
    /\ walked = <<>>
    /\ outcome = NoOutcome
    /\ MainIdle

NextCheck == Evaluate \/ AddFile

CheckSpec == InitCheck /\ [][NextCheck]_vars

(***************************************************************************)
(* main.  repo is the tree below the path main is given, where the path is *)
(* a directory that can be listed.  ret is the value main returns, <<>>    *)
(* while it has not.  The directories above the path can be searched, so   *)
(* that root.exists() and root.is_dir() answer.                            *)
(***************************************************************************)
PathKinds == {"missing", "notdir", "unreadable", "ok"}

\* values of --min-score; <<>> is None
Thresholds == {<<>>, <<10>>, <<50>>}

Fail(message) ==
    /\ stderr' = Append(stderr, message)
    /\ ret' = <<1>>
    /\ pc' = "done"
    /\ UNCHANGED <<repoVars, pathKind, out, min_score, checks, score, report, stdout>>

PathMissing ==
    /\ pc = "start"
    /\ pathKind = "missing"
    /\ Fail(<<"Error: la ruta no existe.">>)

\* a faulty validation: a path that is not a directory is let through
PathNotDir_falls_through ==
    /\ pc = "start"
    /\ pathKind = "notdir"
    /\ pc' = "validated"
    /\ UNCHANGED <<repoVars, pathKind, out, min_score, checks, score, report,
                   stdout, stderr, ret>>

PathNotDir ==
    /\ pc = "start"
    /\ pathKind = "notdir"
    /\ Fail(<<"Error: la ruta no es un directorio.">>)

PathUnreadable ==
    /\ pc = "start"
    /\ pathKind = "unreadable"
    /\ Fail(<<"Error: sin permiso de lectura en el directorio.">>)

PathOk ==
    /\ pc = "start"
    /\ pathKind = "ok"
    /\ pc' = "validated"
    /\ UNCHANGED <<repoVars, pathKind, out, min_score, checks, score, report,
                   stdout, stderr, ret>>

RunAllChecks ==
    /\ pc = "validated"
    /\ \E order \in Orders(repo) :
          LET result == run_all_checks(repo, order)
          IN  /\ result.exc = "none"
              /\ listing' = order
              /\ checks' = result.val
    /\ pc' = "checked"
    /\ UNCHANGED <<repo, phase, walked, outcome,
                   pathKind, out, min_score, score, report, stdout, stderr, ret>>

\* a check raises: the exception leaves main, the interpreter writes the
\* traceback to the error stream and the process ends
RunAllChecksRaises ==
    /\ pc = "validated"
    /\ \E order \in Orders(repo) :
          LET result == run_all_checks(repo, order)
          IN  /\ result.exc # "none"
              /\ listing' = order
              /\ stderr' = Append(stderr, <<"Traceback", result.exc>>)
    /\ pc' = "raised"
    /\ UNCHANGED <<repo, phase, walked, outcome,
                   pathKind, out, min_score, checks, score, report, stdout, ret>>

ComputeScore ==
    /\ pc = "checked"
    /\ score' = <<compute_score(checks)>>
    /\ pc' = "scored"
    /\ UNCHANGED <<repoVars, pathKind, out, min_score, checks, report, stdout, stderr, ret>>

BuildReport ==
    /\ pc = "scored"
    /\ report' = <<build_report(repo, checks, score[1])>>
    /\ pc' = "built"
    /\ UNCHANGED <<repoVars, pathKind, out, min_score, checks, score, stdout, stderr, ret>>

\* output_text and output_json: the rendered report, as one write
OutputText ==
    /\ pc = "built"
    /\ out = "text"
    /\ stdout' = Append(stdout, [format |-> "text", report |-> report[1]])
    /\ pc' = "rendered"
    /\ UNCHANGED <<repoVars, pathKind, out, min_score, checks, score, report, stderr, ret>>

OutputJson ==
    /\ pc = "built"
    /\ out # "text"
    /\ stdout' = Append(stdout, [format |-> "json", report |-> report[1]])
    /\ pc' = "rendered"
    /\ UNCHANGED <<repoVars, pathKind, out, min_score, checks, score, report, stderr, ret>>

BelowMinimum == min_score # <<>> /\ score[1] < min_score[1]

GateFail ==
    /\ pc = "rendered"
    /\ BelowMinimum
    /\ stderr' = Append(stderr, <<"Score por debajo del minimo", score[1], min_score[1]>>)
    /\ ret' = <<1>>
    /\ pc' = "done"
    /\ UNCHANGED <<repoVars, pathKind, out, min_score, checks, score, report, stdout>>

ReturnOk ==
    /\ pc = "rendered"
    /\ ~BelowMinimum
    /\ ret' = <<0>>
    /\ pc' = "done"
    /\ UNCHANGED <<repoVars, pathKind, out, min_score, checks, score, report, stdout, stderr>>

Init ==
    /\ pathKind \in PathKinds
    /\ repo \in (IF pathKind = "ok" THEN Repos
                 ELSE {[EmptyRepo EXCEPT !.root = root] : root \in Roots})
    /\ phase = "main"
    /\ listing = <<>>
    /\ walked = <<>>
    /\ outcome = NoOutcome
    /\ out \in {"json", "text"}
    /\ min_score \in Thresholds
    /\ pc = "start"
    /\ checks = <<>> /\ score = <<>> /\ report = <<>>
    /\ stdout = <<>> /\ stderr = <<>> /\ ret = <<>>

Next ==
    \/ PathMissing \/ PathNotDir \/ PathUnreadable \/ PathOk
    \/ RunAllChecks \/ RunAllChecksRaises
    \/ ComputeScore \/ BuildReport \/ OutputText \/ OutputJson
    \/ GateFail \/ ReturnOk

Spec == Init /\ [][Next]_vars

(***************************************************************************)
(* The aggregation on every list of results the registry can give: each of *)
(* the ten checks passed or failed.                                        *)
(***************************************************************************)
AllVectors ==
    { [i \in 1..Len(Registry) |->
          [Registry[i] EXCEPT !.passed = b[i], !.evidence = IF b[i] THEN "evidence" ELSE ""]] :
      b \in [1..Len(Registry) -> BOOLEAN] }

InitScore ==
    /\ repo = EmptyRepo
    /\ phase = "main"
    /\ listing = <<>>
    /\ walked = <<>>
    /\ outcome = NoOutcome
    /\ pathKind = "ok"
    /\ out \in {"json", "text"}
    /\ min_score \in Thresholds
    /\ pc = "checked"
    /\ checks \in AllVectors
    /\ score = <<>> /\ report = <<>>
    /\ stdout = <<>> /\ stderr = <<>> /\ ret = <<>>

NextScore ==
    \/ ComputeScore \/ BuildReport \/ OutputText \/ OutputJson
    \/ GateFail \/ ReturnOk

ScoreSpec == InitScore /\ [][NextScore]_vars

(***************************************************************************)
(* Properties.                                                             *)
(***************************************************************************)
RegistryWeights == <<10, 5, 10, 15, 15, 10, 10, 10, 5, 10>>

RECURSIVE SumOver(_, _)
SumOver(I, w) ==
    IF I = {} THEN 0
    ELSE LET i == CHOOSE x \in I : TRUE IN w[i] + SumOver(I \ {i}, w)

PassedIndices(cs) == {i \in 1..Len(cs) : cs[i].passed}

Finished == pc \in {"done", "raised"}

\* C1: the results carry the weights 10, 5, 10, 15, 15, 10, 10, 10, 5, 10 in
\* registry order, which sum to 100; the score compute_score returns is the
\* sum of the weights of the passed results, and lies between 0 and 100.
C1_ScoreIsSumOfPassedWeights ==
    /\ SumOver(1..Len(RegistryWeights), RegistryWeights) = 100
    /\ Len(checks) = Len(RegistryWeights)
    /\ \A i \in 1..Len(checks) : checks[i].weight = RegistryWeights[i]
    /\ score # <<>> =>
          /\ score[1] = SumOver(PassedIndices(checks), RegistryWeights)
          /\ 0 <= score[1]
          /\ score[1] <= 100

C1_Witness ==
    /\ pc = "done"
    /\ score = <<100>>
    /\ PassedIndices(checks) = 1..10

\* C2: main returns 1 exactly when the path is missing, not a directory or
\* unreadable, or a threshold was given and the score is below it; every
\* other run that ends returns 0.
ExitOneCause ==
    \/ pathKind # "ok"
    \/ min_score # <<>> /\ score # <<>> /\ score[1] < min_score[1]

C2_ExitCode ==
    Finished =>
        /\ ret = <<1>> <=> ExitOneCause
        /\ ~ExitOneCause => ret = <<0>>

\* C3: a run that got past the validation of the path writes the report to
\* the output stream exactly once, before the comparison of the gate and
\* before any diagnostic of the gate.
GateDiagnostics == {i \in 1..Len(stderr) : stderr[i][1] = "Score por debajo del minimo"}

C3_ReportExactlyOnce ==
    /\ Len(stdout) <= 1
    /\ pc = "rendered" => Len(stdout) = 1
    /\ GateDiagnostics # {} => Len(stdout) = 1
    /\ Finished /\ pathKind = "ok" => Len(stdout) = 1

\* C4: with a path that is missing, not a directory or unreadable, main
\* writes one diagnostic to the error stream and returns 1; no check has
\* run, no score is computed and nothing is written to the output stream.
C4_InputErrorBeforeChecks ==
    pathKind # "ok" =>
        /\ pc \in {"start", "done"}
        /\ checks = <<>> /\ score = <<>> /\ report = <<>> /\ stdout = <<>>
        /\ pc = "done" => ret = <<1>> /\ Len(stderr) = 1

C4_Witness ==
    /\ pathKind = "unreadable"
    /\ pc = "done"
    /\ stderr = << <<"Error: sin permiso de lectura en el directorio.">> >>

Evaluated == phase \in {"evaluated", "grown"}

\* no directory on the way to the root bears an ignored name
RootClean(r) == IGNORED_DIRS \cap Range(r.root) = {}

\* a component of the path relative to the root is an ignored name
RelIgnored(p) == IGNORED_DIRS \cap Range(p) # {}

\* the file can be reached and read: no ancestor refuses to be listed or
\* searched, and the file itself can be opened
Accessible(r, p) == p \in Yielded(r) /\ ~StatFails(r, p) /\ ~ReadFails(r, p)

\* C5: every check returns a CheckResult and run_all_checks returns ten
\* results, also where .github/workflows cannot be listed or searched.
C5_ChecksAreTotal ==
    (Evaluated /\ (repo.fault = NoFault \/ repo.fault.at = <<".github", "workflows">>))
    => outcome.exc = "none" /\ Len(outcome.val) = 10

\* C6: a result has the empty evidence exactly when it has not passed.
C6_EvidenceIffPassed ==
    \A i \in 1..Len(outcome.val) :
        outcome.val[i].evidence = "" <=> ~outcome.val[i].passed

C6_Witness ==
    /\ phase = "grown"
    /\ Len(outcome.val) = 10
    /\ Cardinality(PassedIndices(outcome.val)) = 3
    /\ \A i \in PassedIndices(outcome.val) : outcome.val[i].evidence # ""

\* C7: where adding a file makes a check pass that failed, the score after
\* is no lower than the score before.
C7_AddingAFileIsMonotone ==
    [][ ( /\ phase = "evaluated" /\ phase' = "grown"
          /\ outcome.exc = "none" /\ outcome'.exc = "none"
          /\ \E i \in 1..Len(outcome.val) :
                ~outcome.val[i].passed /\ outcome'.val[i].passed )
        => compute_score(outcome'.val) >= compute_score(outcome.val) ]_vars

\* C8: in a repository without permission faults, below a root with no
\* ignored name, check_tests passes exactly when tests/ or test/ is a
\* directory of the root, or a file that is not ignored and whose stem
\* contains "test" or "spec" lies in a directory named test, tests, spec,
\* specs or __tests__, or some directory is named __tests__.
StemSaysTest(p) ==
    \/ Contains(Lower(Stem(Name(p))), "test")
    \/ Contains(Lower(Stem(Name(p))), "spec")

TestsExpected(r) ==
    \/ IsDir(r, <<"tests">>)
    \/ IsDir(r, <<"test">>)
    \/ \E p \in FilePaths(r) :
          /\ ~RelIgnored(p)
          /\ StemSaysTest(p)
          /\ TestDirNames \cap Range(Parent(p)) # {}
    \/ \E d \in Dirs(r) : Name(d) = "__tests__"

C8_TestsCheck ==
    ( /\ Evaluated
      /\ outcome.exc = "none"
      /\ repo.fault = NoFault
      /\ RootClean(repo) )
    => (outcome.val[5].passed <=> TestsExpected(repo))

\* C9: below a root with no ignored name, every file that can be reached and
\* read and has no ignored component is in the listing of walk_repo, whatever
\* permission fault the traversal met.
C9_WalkSkipsOnlyTheInaccessible ==
    (Evaluated /\ RootClean(repo)) =>
        \A p \in FilePaths(repo) :
            (Accessible(repo, p) /\ ~RelIgnored(p)) => p \in Range(walked)

\* C10: without permission faults walk_repo returns exactly the files whose
\* path relative to the root has no ignored component, wherever the root is.
C10_WalkIsExactlyTheNonIgnoredFiles ==
    (Evaluated /\ repo.fault = NoFault) =>
        Range(walked) = {p \in FilePaths(repo) : ~RelIgnored(p)}

====
